---- MODULE Spec2Model ----
(***************************************************************************)
(* A model of gtp_connection.py: the GTP command loop of a NoGo engine and *)
(* its exact solver (solve_cmd / boolean_negamax with a transposition      *)
(* table).  The board module (board.py, board_base.py) is not part of the  *)
(* sources at hand; the board operations are modelled from its interface   *)
(* contract.                                                               *)
(*                                                                         *)
(* Text (str) is modelled as a sequence of one-character strings, so that  *)
(* formatting, lower-casing and parsing are computed character by          *)
(* character.  None is the empty sequence and a present value x is <<x>>.  *)
(***************************************************************************)
EXTENDS Integers, Sequences, FiniteSets, TLC

\* ------------------------------------------------------------------ bounds
\* Largest board size explored (GoBoard is square: size x size).
MaxSize == 2
\* Most stones the play commands put on the live board.
MaxStones == 2
\* Cap of the recursion depth: one more than any search on the largest
\* board can need (one frame per empty cell, plus the top-level frame).
MaxDepth == MaxSize * MaxSize + 2

\* ----------------------------------------------------------- board_base
EMPTY == 0
BLACK == 1
WHITE == 2

opponent(color) == WHITE + BLACK - color

None == << >>
Some(x) == <<x>>

\* ------------------------------------------------------------------ text
UpperAlphabet == <<"A","B","C","D","E","F","G","H","I","J","K","L","M",
                   "N","O","P","Q","R","S","T","U","V","W","X","Y","Z">>
LowerAlphabet == <<"a","b","c","d","e","f","g","h","i","j","k","l","m",
                   "n","o","p","q","r","s","t","u","v","w","x","y","z">>
Digits == <<"0","1","2","3","4","5","6","7","8","9">>

\* str.lower(), one character
LowerChar(c) ==
  IF \E i \in 1..26 : UpperAlphabet[i] = c
  THEN LowerAlphabet[CHOOSE i \in 1..26 : UpperAlphabet[i] = c]
  ELSE c

\* str.lower()
Lower(text) == [i \in 1..Len(text) |-> LowerChar(text[i])]

\* str(n) for a natural number n
RECURSIVE StrInt(_)
StrInt(n) ==
  IF n < 10 THEN <<Digits[n + 1]>>
  ELSE StrInt(n \div 10) \o <<Digits[(n % 10) + 1]>>

\* str(b) for a bool
StrBool(b) == IF b THEN <<"T","r","u","e">> ELSE <<"F","a","l","s","e">>

Resign == <<"r","e","s","i","g","n">>

\* ----------------------------------------------------------------- board
\* Points are indices of GoBoard's one-dimensional array: row * NS + col.
Points(n) == { r * (n + 1) + c : r \in 1..n, c \in 1..n }

EmptyBoard(n) == [p \in Points(n) |-> EMPTY]

\* The on-board neighbours of p: left, right, below and above.
NeighborsAt(n, p) == { q \in Points(n) : q \in {p - 1, p + 1, p - (n + 1), p + (n + 1)} }

\* NeighborsAt, tabulated for the board sizes explored.
NeighborTable == [n \in 1..MaxSize |-> [p \in Points(n) |-> NeighborsAt(n, p)]]
Neighbors(n, p) == NeighborTable[n][p]

\* The block of same-coloured stones connected to the stone set S.
RECURSIVE BlockOf(_, _, _)
BlockOf(n, b, S) ==
  LET c == b[CHOOSE s \in S : TRUE]
      T == S \cup { q \in Points(n) : b[q] = c /\ \E s \in S : q \in Neighbors(n, s) }
  IN IF T = S THEN S ELSE BlockOf(n, b, T)

HasLiberty(n, b, S) == \E s \in S : \E q \in Neighbors(n, s) : b[q] = EMPTY

\* GoBoard.is_legal(point, color): the point is empty and, with the stone
\* placed, the mover's block keeps at least one liberty.
is_legal(n, b, p, color) ==
  /\ b[p] = EMPTY
  /\ LET b2 == [b EXCEPT ![p] = color]
     IN HasLiberty(n, b2, BlockOf(n, b2, {p}))

\* GoBoard.play_move(point, color) on a legal move: the cells afterwards.
play_move(b, p, color) == [b EXCEPT ![p] = color]

\* An ascending sequence of the elements of a set of integers.
RECURSIVE Ascending(_)
Ascending(S) ==
  IF S = {} THEN << >>
  ELSE LET m == CHOOSE x \in S : \A y \in S : x <= y
       IN <<m>> \o Ascending(S \ {m})

\* The points of the board in ascending index order, tabulated.
PointSeq == [n \in 1..MaxSize |-> Ascending(Points(n))]

\* GoBoard.get_empty_points(): the empty points in ascending index order.
get_empty_points(n, b) == SelectSeq(PointSeq[n], LAMBDA p : b[p] = EMPTY)

CellChar(v) == IF v = EMPTY THEN "." ELSE IF v = BLACK THEN "X" ELSE "O"

\* str(board): the canonical encoding, the cell contents in index order.
BoardStr(n, b) ==
  LET ps == PointSeq[n]
  IN [i \in 1..Len(ps) |-> CellChar(b[ps[i]])]

NumStones(n, b) == Cardinality({ p \in Points(n) : b[p] # EMPTY })
NumEmpty(n, b) == Cardinality({ p \in Points(n) : b[p] = EMPTY })

\* ----------------------------------------------------------- coordinates
\* The pair in the order (col, row).
point_to_coord_swapped(point, boardsize) ==
  LET NS == boardsize + 1 IN <<point % NS, point \div NS>>

\* point_to_coord(point, boardsize): divmod(point, boardsize + 1)
point_to_coord(point, boardsize) ==
  LET NS == boardsize + 1 IN <<point \div NS, point % NS>>

\* MAXSIZE, the largest board size: format_point asserts MAXSIZE <= 25.
MAXSIZE == 25

column_letters == <<"A","B","C","D","E","F","G","H","J","K","L","M","N",
                    "O","P","Q","R","S","T","U","V","W","X","Y","Z">>

\* format_point((row, col)): column_letters[col - 1] + str(row); Python
\* indexes from 0 and sequences here from 1.
format_point(move) == <<column_letters[move[2]]>> \o StrInt(move[1])

\* move_to_coord's int(s[1:]): defined on a non-empty run of digits.
IsInt(text) ==
  /\ Len(text) > 0
  /\ \A i \in 1..Len(text) : \E d \in 1..10 : Digits[d] = text[i]

RECURSIVE ParseInt(_)
ParseInt(text) ==
  IF Len(text) = 0 THEN 0
  ELSE 10 * ParseInt(SubSeq(text, 1, Len(text) - 1))
       + (CHOOSE d \in 0..9 : Digits[d + 1] = text[Len(text)])

\* ord(c) - ord("a") for a lower-case letter c
OrdFromA(c) == (CHOOSE i \in 1..26 : LowerAlphabet[i] = c) - 1

\* The column counted from the letter without regard to the skipped "i".
move_to_coord_unskipped(point_str, board_size) ==
  LET s == Lower(point_str)
  IN <<ParseInt(Tail(s)), OrdFromA(s[1]) + 1>>

\* move_to_coord(point_str, board_size): (row, col) of a GTP coordinate.
move_to_coord(point_str, board_size) ==
  LET s == Lower(point_str)
      col_c == s[1]
      col == OrdFromA(col_c)
  IN <<ParseInt(Tail(s)), IF OrdFromA(col_c) < OrdFromA("i") THEN col + 1 ELSE col>>

\* board_base.coord_to_point(row, col, board_size); it asserts that row
\* and col lie in 1..board_size.
CoordOnBoard(row, col, board_size) == row \in 1..board_size /\ col \in 1..board_size
coord_to_point(row, col, board_size) == (board_size + 1) * row + col

\* color_to_int(c) for "b" and "w"
color_to_int(c) == IF c = "b" THEN BLACK ELSE WHITE

\* ---------------------------------------------------- transposition table
\* TranspositionTable.__init__: an empty dictionary.
TranspositionTable == << >>

\* TranspositionTable.lookup(code): dict.get, None when the key is absent.
lookup(table, code) == IF code \in DOMAIN table THEN Some(table[code]) ELSE None

\* TranspositionTable.store(code, score): the key is str(code).
store(n, table, code, score) ==
  LET key == BoardStr(n, code)
  IN [k \in (DOMAIN table) \cup {key} |-> IF k = key THEN score ELSE table[k]]

\* ---------------------------------------------------------------- stdout
\* respond(response): "= {}\n\n", a response line and a blank line.
respond(response) == << <<"=", " ">> \o response, << >> >>

\* error(error_msg): "? {}\n\n"
error(error_msg) == << <<"?", " ">> \o error_msg, << >> >>

\* ----------------------------------------------------------------- state
VARIABLES
  size,             \* board.size
  board,            \* board.board: the live board's cells
  current_player,   \* board.current_player
  last_move,        \* board.last_move
  last_move_color,  \* board.last_move_color
  time_limit,       \* self.time_limit
  running,          \* start_connection's loop is still reading commands
  last_cmd,         \* the name of the command received last
  out,              \* the lines written to stdout since that command
  pc,               \* "idle" between commands, "solve" inside solve_cmd
  stack,            \* the activations of boolean_negamax, outermost first
  table,            \* solve_cmd's transposition_table
  ret,              \* the value a finished boolean_negamax call returned
  entry,            \* the live position when the current solve began
  solved,           \* the result of the last finished solve of the present position
  steps             \* the steps the current solve has taken

vars == <<size, board, current_player, last_move, last_move_color, time_limit,
          running, last_cmd, out, pc, stack, table, ret, entry, solved, steps>>

\* The board object a reference denotes: 0 is self.board, r > 0 is the
\* copy made by the activation at depth r.
Deref(r) == IF r = 0 THEN board ELSE stack[r].cells

\* No copy: "board" refers to the caller's board object.
copy_alias(current_board, depth) == current_board

\* current_board.copy() in the activation at the given depth: a new board
\* object, referred to by that depth.
copy_ref(current_board, depth) == depth

\* The activation record of boolean_negamax(current_board, current_player,
\* transposition_table) once "board = current_board.copy()" has run.
Frame(cb, depth, cells, player) ==
  [ current_board |-> cb,                 \* reference to the caller's board
    boardref |-> copy_ref(cb, depth),     \* reference held by "board"
    cells |-> cells,                      \* the copy made by this activation
    P |-> cells,                          \* the position at entry
    current_player |-> player,
    moves |-> << >>,                      \* rest of board.get_empty_points()
    move |-> None,                        \* the loop variable
    pos |-> "enter" ]

Top == stack[Len(stack)]
Pop == SubSeq(stack, 1, Len(stack) - 1)

Init ==
  /\ size \in 1..MaxSize
  /\ board = EmptyBoard(size)
  /\ current_player = BLACK
  /\ last_move = None
  /\ last_move_color = None
  /\ time_limit = 15
  /\ running = TRUE
  /\ last_cmd = "none"
  /\ out = << >>
  /\ pc = "idle"
  /\ stack = << >>
  /\ table = TranspositionTable
  /\ ret = None
  /\ entry = None
  /\ solved = None
  /\ steps = 0

Ready == running /\ pc = "idle"

\* ------------------------------------------------------------- commands
\* The arguments the client sends with play: the coordinates of the board's
\* points in upper and in lower case, and a coordinate without a row.
PlayTexts(n) ==
  LET coords == { format_point(point_to_coord(p, n)) : p \in Points(n) }
  IN coords \cup { Lower(t) : t \in coords } \cup { <<"a">> }

\* The arguments the client sends with timelimit.
TimeTexts == { <<"0">>, <<"1","5">>, <<"1","0","1">> }

ErrorPrefix == <<"E","r","r","o","r",":"," ">>
IllegalMove == <<"i","l","l","e","g","a","l"," ","m","o","v","e">>
\* str(e) of the ValueError int() raises
ValueErrorText == <<"i","n","v","a","l","i","d"," ","l","i","t","e","r","a","l">>

\* The client's play arguments, tabulated for the board sizes explored.
PlayTextTable == [n \in 1..MaxSize |-> PlayTexts(n)]

\* play_cmd's conversion of args[1]: Some(point), or None when
\* move_to_coord or coord_to_point raises.
PlayConversion(n, text) ==
  IF ~IsInt(Tail(Lower(text))) THEN None
  ELSE LET coord == move_to_coord(text, n)
       IN IF CoordOnBoard(coord[1], coord[2], n)
          THEN Some(coord_to_point(coord[1], coord[2], n))
          ELSE None

\* PlayConversion, tabulated.
PlayConversionTable ==
  [n \in 1..MaxSize |-> [text \in PlayTexts(n) |-> PlayConversion(n, text)]]

PlayParses(n, text) == PlayConversionTable[n][text] # None
PlayPoint(n, text) == PlayConversionTable[n][text][1]

\* play_cmd, the move is legal: the stone is placed and the turn passes.
PlayOk(c, text) ==
  /\ Ready
  /\ NumStones(size, board) < MaxStones
  /\ PlayParses(size, text)
  /\ LET color == color_to_int(c)
         move == PlayPoint(size, text)
     IN /\ is_legal(size, board, move, color)
        /\ board' = play_move(board, move, color)
        /\ current_player' = opponent(color)
        /\ last_move' = Some(move)
        /\ last_move_color' = Some(color)
  /\ last_cmd' = "play"
  /\ out' = respond(<< >>)
  /\ solved' = None
  /\ steps' = steps
  /\ UNCHANGED <<size, time_limit, running, pc, stack, table, ret, entry>>

\* play_cmd, board.play_move fails: "illegal move" and nothing changes.
PlayIllegal(c, text) ==
  /\ Ready
  /\ NumStones(size, board) < MaxStones
  /\ PlayParses(size, text)
  /\ ~is_legal(size, board, PlayPoint(size, text), color_to_int(c))
  /\ last_cmd' = "play"
  /\ out' = respond(IllegalMove)
  /\ steps' = steps
  /\ UNCHANGED <<size, board, current_player, last_move, last_move_color,
                 time_limit, running, pc, stack, table, ret, entry, solved>>

\* play_cmd, the conversion raises: play_cmd's own handler responds.
PlayError(c, text) ==
  /\ Ready
  /\ NumStones(size, board) < MaxStones
  /\ ~PlayParses(size, text)
  /\ last_cmd' = "play"
  /\ out' = respond(ErrorPrefix \o
                    (IF IsInt(Tail(Lower(text))) THEN << >> ELSE ValueErrorText))
  /\ steps' = steps
  /\ UNCHANGED <<size, board, current_player, last_move, last_move_color,
                 time_limit, running, pc, stack, table, ret, entry, solved>>

\* timelimit with an argument in 1..100
TimelimitOk(text) ==
  /\ Ready
  /\ ParseInt(text) \in 1..100
  /\ time_limit' = ParseInt(text)
  /\ last_cmd' = "timelimit"
  /\ out' = respond(<< >>)
  /\ steps' = steps
  /\ UNCHANGED <<size, board, current_player, last_move, last_move_color,
                 running, pc, stack, table, ret, entry, solved>>

\* timelimit whose assert fails: get_cmd logs to the debug stream and
\* raises again, start_connection does not catch, the loop is left.
TimelimitRaise(text) ==
  /\ Ready
  /\ ParseInt(text) \notin 1..100
  /\ running' = FALSE
  /\ last_cmd' = "timelimit"
  /\ out' = << >>
  /\ steps' = steps
  /\ UNCHANGED <<size, board, current_player, last_move, last_move_color,
                 time_limit, pc, stack, table, ret, entry, solved>>

UnknownCommandText ==
  <<"U","n","k","n","o","w","n"," ","c","o","m","m","a","n","d">>

\* get_cmd on a command name that is not in self.commands.
UnknownCommand ==
  /\ Ready
  /\ last_cmd' = "unknown"
  /\ out' = error(UnknownCommandText)
  /\ UNCHANGED <<size, board, current_player, last_move, last_move_color,
                 time_limit, running, pc, stack, table, ret, entry, solved, steps>>

\* A table kept from the solve before instead of a new one.
transposition_table_kept == table

\* solve_cmd: transposition_table = TranspositionTable()
transposition_table == TranspositionTable

\* solve_cmd up to the call of boolean_negamax(self.board, current_player,
\* transposition_table).
SolveCmd ==
  /\ Ready
  /\ table' = transposition_table
  /\ stack' = << Frame(0, 1, board, current_player) >>
  /\ pc' = "solve"
  /\ ret' = None
  /\ entry' = Some([cells |-> board, player |-> current_player])
  /\ last_cmd' = "solve"
  /\ out' = << >>
  /\ steps' = 0
  /\ UNCHANGED <<size, board, current_player, last_move, last_move_color,
                 time_limit, running, solved>>

\* ------------------------------------------------------- boolean_negamax
RetTT == <<"r","e","t","T","T">>
RetTT2 == <<"r","e","t","T","T","2">>
Ret2 == <<"r","e","t","2">>
ReturnResign == <<"r","e","t","u","r","n","R","e","s","i","g","n","@">>
LastMove == <<"l","a","s","t","m","o","v","e">>

InSearch == pc = "solve" /\ stack # << >>

\* board_score = str(board), at the activation on top of the stack
BoardScore == BoardStr(size, Deref(Top.boardref))

\* What boolean_negamax returns on a table hit with the entry res.
HitResult(res) ==
  IF res[1] = TRUE
  THEN <<TRUE, Lower(StrBool(res[1]) \o <<" ">> \o res[2])>>
  ELSE <<FALSE, Lower(res[2])>>

\* The lines boolean_negamax prints on a table hit with the entry res.
HitLines(res) ==
  IF res[1] = TRUE THEN <<RetTT, HitResult(res)[2]>> ELSE <<RetTT2>>

\* Lines 413-424: the board is printed, the table has an entry for it, the
\* call returns what it builds from the entry.
LookupHit ==
  /\ InSearch
  /\ Top.pos = "enter"
  /\ lookup(table, BoardScore) # None
  /\ LET res == lookup(table, BoardScore)[1]
     IN /\ ret' = Some(HitResult(res))
        /\ out' = out \o <<BoardScore>> \o HitLines(res)
  /\ stack' = Pop
  /\ steps' = steps + 1
  /\ UNCHANGED <<size, board, current_player, last_move, last_move_color,
                 time_limit, running, last_cmd, pc, table, entry, solved>>

\* Lines 413-428: the board is printed, the table has no entry for it, the
\* loop over board.get_empty_points() begins.
LookupMiss ==
  /\ InSearch
  /\ Top.pos = "enter"
  /\ lookup(table, BoardScore) = None
  /\ out' = out \o <<BoardScore>>
  /\ stack' = [stack EXCEPT ![Len(stack)].moves =
                              get_empty_points(size, Deref(Top.boardref)),
                            ![Len(stack)].pos = "loop"]
  /\ steps' = steps + 1
  /\ UNCHANGED <<size, board, current_player, last_move, last_move_color,
                 time_limit, running, last_cmd, pc, table, ret, entry, solved>>

\* Lines 428-430: the next empty point is not legal on board: continue.
LoopSkip ==
  /\ InSearch
  /\ Top.pos = "loop"
  /\ Top.moves # << >>
  /\ ~is_legal(size, Deref(Top.boardref), Head(Top.moves), Top.current_player)
  /\ stack' = [stack EXCEPT ![Len(stack)].moves = Tail(Top.moves)]
  /\ steps' = steps + 1
  /\ UNCHANGED <<size, board, current_player, last_move, last_move_color,
                 time_limit, running, last_cmd, out, pc, table, ret, entry, solved>>

\* The stack once the activation at depth d has played move on the board
\* object r, leaving the cells new there, and waits for its recursive call.
Played(d, r, move, new) ==
  LET waiting == [stack EXCEPT ![d].moves = Tail(stack[d].moves),
                               ![d].move = Some(move),
                               ![d].pos = "wait"]
  IN IF r = 0 THEN waiting ELSE [waiting EXCEPT ![r].cells = new]

\* The recursive call is given the caller's own argument again.
call_argument_current(current_board, board_ref) == current_board

\* The first argument of the recursive call, line 432: board.
call_argument(current_board, board_ref) == board_ref

\* Lines 428-432: the next empty point is legal on board: it is played
\* there, and boolean_negamax is called on board with the same player.
LoopPlay ==
  /\ InSearch
  /\ Top.pos = "loop"
  /\ Top.moves # << >>
  /\ Len(stack) < MaxDepth
  /\ LET d == Len(stack)
         r == Top.boardref
         move == Head(Top.moves)
         player == Top.current_player
     IN /\ is_legal(size, Deref(r), move, player)
        /\ LET new == play_move(Deref(r), move, player)
               arg == call_argument(Top.current_board, r)
               passed == IF arg = r THEN new ELSE Deref(arg)
           IN /\ stack' = Append(Played(d, r, move, new),
                                 Frame(arg, d + 1, passed, player))
              /\ board' = IF r = 0 THEN new ELSE board
              /\ current_player' = IF r = 0 THEN opponent(player) ELSE current_player
              /\ last_move' = IF r = 0 THEN Some(move) ELSE last_move
              /\ last_move_color' = IF r = 0 THEN Some(player) ELSE last_move_color
  /\ steps' = steps + 1
  /\ UNCHANGED <<size, time_limit, running, last_cmd, out, pc, table, ret,
                 entry, solved>>

\* The witness of a win by move: "{} {}".format(player_color, final_move).lower()
WinString(n, player, move) ==
  LET player_color == IF player = BLACK THEN "b" ELSE "w"
      final_move == format_point(point_to_coord(move, n))
  IN Lower(<<player_color>> \o <<" ">> \o final_move)

\* The loop goes on after a candidate won: no return at the first win.
ChildLostLoopGoesOn ==
  /\ InSearch
  /\ Top.pos = "wait"
  /\ ret # None
  /\ ~ret[1][1]
  /\ table' = store(size, table, Deref(Top.current_board), <<TRUE, ret[1][2]>>)
  /\ ret' = None
  /\ stack' = [stack EXCEPT ![Len(stack)].pos = "loop"]
  /\ steps' = steps + 1
  /\ UNCHANGED <<size, board, current_player, last_move, last_move_color,
                 time_limit, running, last_cmd, out, pc, entry, solved>>

\* Lines 432-444: the recursive call returned a loss for the child, so
\* score is true: it is stored under str(current_board) with the child's
\* string, and the call returns the win by move.
ChildLost ==
  /\ InSearch
  /\ Top.pos = "wait"
  /\ ret # None
  /\ ~ret[1][1]
  /\ table' = store(size, table, Deref(Top.current_board), <<TRUE, ret[1][2]>>)
  /\ out' = out \o << LastMove \o <<" ">> \o
                        format_point(point_to_coord(Top.move[1], size)),
                      Ret2 >>
  /\ ret' = Some(<<TRUE, WinString(size, Top.current_player, Top.move[1])>>)
  /\ stack' = Pop
  /\ steps' = steps + 1
  /\ UNCHANGED <<size, board, current_player, last_move, last_move_color,
                 time_limit, running, last_cmd, pc, entry, solved>>

\* Lines 432-435: the recursive call returned a win for the child, so
\* score is false: it is stored under str(current_board) with the child's
\* string, and the loop goes on.
ChildWon ==
  /\ InSearch
  /\ Top.pos = "wait"
  /\ ret # None
  /\ ret[1][1]
  /\ table' = store(size, table, Deref(Top.current_board), <<FALSE, ret[1][2]>>)
  /\ ret' = None
  /\ stack' = [stack EXCEPT ![Len(stack)].pos = "loop"]
  /\ steps' = steps + 1
  /\ UNCHANGED <<size, board, current_player, last_move, last_move_color,
                 time_limit, running, last_cmd, out, pc, entry, solved>>

\* A position without a winning move counted as won.
NoWinResultWon == <<TRUE, Resign>>

\* Line 449: return False, "resign"
NoWinResult == <<FALSE, Resign>>

\* Lines 448-449: the loop is over and no move won.
LoopEnd ==
  /\ InSearch
  /\ Top.pos = "loop"
  /\ Top.moves = << >>
  /\ out' = out \o <<ReturnResign>>
  /\ ret' = Some(NoWinResult)
  /\ stack' = Pop
  /\ steps' = steps + 1
  /\ UNCHANGED <<size, board, current_player, last_move, last_move_color,
                 time_limit, running, last_cmd, pc, table, entry, solved>>

\* solve_cmd after boolean_negamax returned: the move-tracking fields are
\* set to None and score_string is the response.
SolveRespond ==
  /\ pc = "solve"
  /\ stack = << >>
  /\ ret # None
  /\ last_move' = None
  /\ last_move_color' = None
  /\ out' = out \o respond(ret[1][2])
  /\ solved' = Some([cells |-> entry[1].cells, player |-> entry[1].player,
                     isWin |-> ret[1][1], score_string |-> ret[1][2]])
  /\ pc' = "idle"
  /\ ret' = None
  /\ steps' = 0
  /\ UNCHANGED <<size, board, current_player, time_limit, running, last_cmd,
                 stack, table, entry>>

SearchStep ==
  \/ LookupHit
  \/ LookupMiss
  \/ LoopSkip
  \/ LoopPlay
  \/ ChildLost
  \/ ChildWon
  \/ LoopEnd
  \/ SolveRespond

Next ==
  \/ \E c \in {"b", "w"} : \E text \in PlayTextTable[size] : PlayOk(c, text)
  \/ \E c \in {"b", "w"} : \E text \in PlayTextTable[size] : PlayIllegal(c, text)
  \/ \E c \in {"b", "w"} : \E text \in PlayTextTable[size] : PlayError(c, text)
  \/ \E text \in TimeTexts : TimelimitOk(text)
  \/ \E text \in TimeTexts : TimelimitRaise(text)
  \/ UnknownCommand
  \/ SolveCmd
  \/ LookupHit
  \/ LookupMiss
  \/ LoopSkip
  \/ LoopPlay
  \/ ChildLost
  \/ ChildWon
  \/ LoopEnd
  \/ SolveRespond

Spec == Init /\ [][Next]_vars

\* ================================================================ claims
SolveDone == pc = "idle" /\ last_cmd = "solve" /\ solved # None

\* Reference for C1: the player to move can force a win when the players
\* alternate and a player without a legal move loses.
RECURSIVE CanForceWin(_, _, _)
CanForceWin(n, b, player) ==
  \E p \in Points(n) :
    /\ is_legal(n, b, p, player)
    /\ ~CanForceWin(n, play_move(b, p, player), opponent(player))

\* C1: the outcome of solve is true exactly when the player to move can
\* force a win under perfect play with alternating moves.
C1_SolveIsNegamax ==
  SolveDone => (solved[1].isWin <=> CanForceWin(size, solved[1].cells, solved[1].player))

\* Reference for C2: the name of a cell in a witness, the column letter of
\* a..h,j..z followed by the row number.
CellName(n, p) ==
  LET letters == <<"a","b","c","d","e","f","g","h","j","k","l","m","n",
                   "o","p","q","r","s","t","u","v","w","x","y","z">>
      row == (p - (p % (n + 1))) \div (n + 1)
  IN <<letters[p % (n + 1)]>> \o StrInt(row)

WitnessOf(n, player, p) ==
  <<IF player = BLACK THEN "b" ELSE "w", " ">> \o CellName(n, p)

\* C2: when solve reports a win, the cell its witness names is empty on the
\* board the solve began with, and the player to move may legally play there.
C2_WitnessLegal ==
  (SolveDone /\ solved[1].isWin) =>
    \E p \in Points(size) :
      /\ solved[1].score_string = WitnessOf(size, solved[1].player, p)
      /\ solved[1].cells[p] = EMPTY
      /\ is_legal(size, solved[1].cells, p, solved[1].player)

\* A win reported on a board that play commands have put stones on.
C2_Witness == SolveDone /\ solved[1].isWin /\ NumStones(size, board) > 0

\* C3: from the moment a solve command is received until the next command,
\* the live board's cells and current player are what they were when the
\* solve began.
C3_LiveBoardKept ==
  last_cmd = "solve" =>
    /\ board = entry[1].cells
    /\ current_player = entry[1].player

\* A solve that has finished after a search that played moves, on a board
\* with stones.
C3_Witness ==
  /\ SolveDone
  /\ table # << >>
  /\ NumStones(size, board) > 0
  /\ board = entry[1].cells

\* C4: nothing is written to stdout during the search, and once the solve
\* has finished stdout holds the response line and the blank line only.
C4_OnlyResponse ==
  last_cmd = "solve" =>
    /\ pc = "solve" => out = << >>
    /\ pc = "idle" => out = respond(solved[1].score_string)

NoLegalMove(n, b, player) == \A p \in Points(n) : ~is_legal(n, b, p, player)

\* C5: on a board where the player to move has no legal move, solve returns
\* outcome false with the witness "resign".
C5_NoMoveResigns ==
  (SolveDone /\ NoLegalMove(size, solved[1].cells, solved[1].player)) =>
    /\ solved[1].isWin = FALSE
    /\ solved[1].score_string = Resign

\* A finished solve of a board with stones and an empty cell on which the
\* player to move has no legal move.
C5_Witness ==
  /\ SolveDone
  /\ NoLegalMove(size, solved[1].cells, solved[1].player)
  /\ NumStones(size, solved[1].cells) > 0
  /\ NumEmpty(size, solved[1].cells) > 0
  /\ solved[1].score_string = Resign

\* C6: a call that finds an entry for its board in the table returns the
\* stored pair unchanged.
C6_HitReturnsEntry ==
  [][LookupHit => ret' = Some(table[BoardScore])]_vars

\* The search of a solve has returned to solve_cmd.
Returned == pc = "solve" /\ stack = << >> /\ ret # None

\* C7: when the search of a solve returns and the same position was solved
\* before with nothing played since, the pair returned is the pair the
\* earlier solve returned.
C7_SameResult ==
  (Returned /\ solved # None) =>
    /\ solved[1].cells = entry[1].cells
    /\ solved[1].player = entry[1].player
    /\ ret[1] = <<solved[1].isWin, solved[1].score_string>>

\* The search of a second solve of a position has returned a win after the
\* first solve and a solve of an earlier position had run.
C7_Witness ==
  /\ Returned
  /\ solved # None
  /\ ret[1][1] = TRUE
  /\ NumStones(size, board) > 0

\* The recursion is no deeper than the empty cells the solve began with,
\* and each call starts from fewer empty cells than its caller did.
DepthBounded ==
  pc = "solve" =>
    /\ Len(stack) - 1 <= NumEmpty(size, entry[1].cells)
    /\ \A i \in 2..Len(stack) :
         NumEmpty(size, stack[i].P) < NumEmpty(size, stack[i - 1].P)

\* The most steps a call on a board with e empty cells takes: the lookup,
\* for each empty cell the skip or the move, the recursive call and the
\* handling of its result, and the return.
RECURSIVE StepBound(_)
StepBound(e) == IF e = 0 THEN 2 ELSE 2 + e * (2 + StepBound(e - 1))

\* A step of the search can be taken: the finished search responds, a call
\* at its entry looks the board up, a loop ends, skips its candidate or
\* plays it and calls, a caller is handed the result it waits for.
CanStep ==
  IF stack = << >> THEN ret # None
  ELSE \/ Top.pos = "enter"
       \/ /\ Top.pos = "loop"
          /\ \/ Top.moves = << >>
             \/ Len(stack) < MaxDepth
             \/ ~is_legal(size, Deref(Top.boardref), Head(Top.moves),
                          Top.current_player)
       \/ Top.pos = "wait" /\ ret # None

\* C8: every solve terminates (while it runs a next step is always
\* possible, and it takes no more steps than a bound fixed by the cells
\* empty when it began), its recursion depth never exceeds the number of
\* cells empty when it began, and every recursive call is made on a board
\* with fewer empty cells than its caller's board at entry.
C8_Terminates ==
  pc = "solve" =>
    /\ DepthBounded
    /\ steps <= StepBound(NumEmpty(size, entry[1].cells))
    /\ CanStep

\* A search three calls below the top-level call.
C8_Witness == pc = "solve" /\ Len(stack) = 4 /\ steps > 0

IsErrorResponse(lines) ==
  /\ Len(lines) = 2
  /\ Len(lines[1]) >= 2
  /\ lines[1][1] = "?"
  /\ lines[1][2] = " "
  /\ lines[2] = << >>

HandlerRaises ==
  \/ \E text \in TimeTexts : TimelimitRaise(text)
  \/ \E c \in {"b", "w"} : \E text \in PlayTextTable[size] : PlayError(c, text)

\* C9: when a command handler raises, one "? message" line is the response,
\* the board is unchanged and the command loop goes on.
C9_ErrorReported ==
  [][HandlerRaises =>
       /\ IsErrorResponse(out')
       /\ board' = board
       /\ running']_vars

\* C10: every recursive call starts from its caller's position at entry
\* plus one stone at the move tried, a move legal on that position.
C10_SiblingsFromP ==
  \A i \in 2..Len(stack) :
    LET caller == stack[i - 1]
    IN /\ is_legal(size, caller.P, caller.move[1], caller.current_player)
       /\ stack[i].P = play_move(caller.P, caller.move[1], caller.current_player)

\* C11: during a search every entry of the transposition table is a
\* well-formed result for its key: with the outcome true its string is
\* "<player letter> <coordinate>" of a cell empty in the keyed position,
\* with the outcome false its string is "resign".
C11_EntriesWellFormed ==
  pc = "solve" =>
    \A k \in DOMAIN table :
      IF table[k][1]
      THEN \E player \in {BLACK, WHITE} : \E p \in Points(size) :
             /\ table[k][2] = WitnessOf(size, player, p)
             /\ \E i \in 1..Len(k) : PointSeq[size][i] = p /\ k[i] = CellChar(EMPTY)
      ELSE table[k][2] = Resign

\* A call that missed the table returns: no move won, or a move won.
NonHitReturn == LoopEnd \/ ChildLost

\* C12: when a call that missed the table returns, the table holds under
\* the encoding of the call's position exactly the pair returned; for a
\* call that returns (false, "resign") that is the entry (false, "resign").
C12_ReturnStored ==
  [][NonHitReturn => lookup(table', BoardStr(size, Top.P)) = ret']_vars

\* The empty points of the board of the innermost activation that lie
\* after its previous candidate (all of them when it has tried none) and
\* before the point m.
PassedOver(m) ==
  { q \in Points(size) :
      /\ Deref(Top.boardref)[q] = EMPTY
      /\ q < m
      /\ Top.move # None => q > Top.move[1] }

\* C13: an activation tries its candidates in ascending index order, each
\* the next empty point that is legal; when the negated result of a
\* candidate's call is false the loop goes on with the next, and at the
\* first candidate whose negated result is true the activation returns the
\* win by that candidate and plays nothing more.
C13_FirstWinningCandidate ==
  [][/\ LoopPlay =>
          LET m == Head(Top.moves)
          IN /\ Top.move # None => Top.move[1] < m
             /\ \A q \in PassedOver(m) :
                  ~is_legal(size, Deref(Top.boardref), q, Top.current_player)
     /\ (InSearch /\ Top.pos = "wait") =>
          IF ret[1][1]
          THEN /\ stack' = [stack EXCEPT ![Len(stack)].pos = "loop"]
               /\ ret' = None
          ELSE /\ stack' = Pop
               /\ ret' = Some(<<TRUE, WitnessOf(size, Top.current_player,
                                                Top.move[1])>>)]_vars

\* The search of a solve has returned a win by a candidate that was not the
\* first one tried.
C13_Witness ==
  /\ Returned
  /\ ret[1][1]
  /\ \E p \in Points(size) :
       /\ ret[1][2] = WitnessOf(size, entry[1].player, p)
       /\ \E q \in Points(size) :
            q < p /\ is_legal(size, entry[1].cells, q, entry[1].player)

\* C14: no step of a solve command, from its receipt to its response,
\* changes the live board's last_move and last_move_color, so after the
\* command they hold the values they had before it.
C14_MoveTrackingKept ==
  [][(SolveCmd \/ pc = "solve") =>
       /\ last_move' = last_move
       /\ last_move_color' = last_move_color]_vars

\* Reference for C15: the coordinate of the point p, the letter of its
\* 1-based column in A..H,J..Z followed by its 1-based row.
CoordinateOf(n, p) ==
  LET letters == <<"A","B","C","D","E","F","G","H","J","K","L","M","N",
                   "O","P","Q","R","S","T","U","V","W","X","Y","Z">>
      col == p % (n + 1)
      row == (p - col) \div (n + 1)
  IN <<letters[col]>> \o StrInt(row)

\* C15: the move coordinate in the witness of a solve that found a win is
\* the letter of the point's column in A..H,J..Z followed by the number of
\* its row, after the player letter and a blank.
C15_WitnessCoordinate ==
  (SolveDone /\ solved[1].isWin) =>
    \E p \in Points(size) :
      solved[1].score_string =
        <<IF solved[1].player = BLACK THEN "b" ELSE "w", " ">> \o CoordinateOf(size, p)

\* The top-level call of the search is at its table lookup.
TopLevelLookup == pc = "solve" /\ Len(stack) = 1 /\ Top.pos = "enter"

\* "<c> <coord>" for the player and a point of the board, the coordinate in
\* either letter case.
IsMoveBody(n, player, text) ==
  \E p \in Points(n) : \E coord \in {CoordinateOf(n, p), Lower(CoordinateOf(n, p))} :
    text = <<IF player = BLACK THEN "b" ELSE "w", " ">> \o coord

\* C16: the top-level call of a search never finds its board in the table,
\* and the body of the solve response is "resign" or "<c> <coord>" with c
\* the colour letter of the live board's current player.
C16_ResponseBody ==
  /\ TopLevelLookup => lookup(table, BoardScore) = None
  /\ SolveDone =>
       /\ Len(out) >= 2
       /\ SubSeq(out, Len(out) - 1, Len(out)) = respond(solved[1].score_string)
       /\ \/ solved[1].score_string = Resign
          \/ IsMoveBody(size, current_player, solved[1].score_string)

\* A solve has responded after a search in which a call built a "true ..."
\* string from a table hit.
C16_Witness ==
  /\ SolveDone
  /\ \E i \in 1..Len(out) : out[i] = RetTT

\* play_cmd with the arguments c and text, whatever its outcome.
PlayCmd(c, text) == PlayOk(c, text) \/ PlayIllegal(c, text) \/ PlayError(c, text)

\* The arguments repeat the win witness of the solve just answered, in
\* either letter case.
RepeatsWitness(c, text) ==
  /\ SolveDone
  /\ solved[1].isWin
  /\ Lower(<<c, " ">> \o text) = solved[1].score_string

\* play_cmd's conversion of the coordinate that format_point and
\* point_to_coord give for the point p, in upper and in lower case, is p.
RoundTrip(n, p) ==
  LET final_move == format_point(point_to_coord(p, n))
  IN \A text \in {final_move, Lower(final_move)} : PlayConversion(n, text) = Some(p)

RoundTripAll == \A n \in 1..MAXSIZE : \A p \in Points(n) : RoundTrip(n, p)

\* C17: on every board up to the largest size the conversion of play_cmd
\* inverts the formatting of a point, in either letter case; and a play
\* command that repeats the win witness of the solve just answered is
\* answered with success and puts a stone of that colour on the cell the
\* witness names, which was empty, and on no other.
C17_PlayWitnessSucceeds ==
  [][/\ RoundTripAll
     /\ SolveDone =>
          \A c \in {"b", "w"} : \A text \in PlayTextTable[size] :
            (RepeatsWitness(c, text) /\ PlayCmd(c, text)) =>
              /\ out' = respond(<< >>)
              /\ \E p \in Points(size) :
                   /\ solved[1].score_string = WitnessOf(size, solved[1].player, p)
                   /\ board[p] = EMPTY
                   /\ board' = [board EXCEPT ![p] = color_to_int(c)]]_vars

\* A solve of a board with stones has answered with a win, and the play
\* command that repeats its witness can be taken and succeeds.
C17_Witness ==
  /\ SolveDone
  /\ solved[1].isWin
  /\ NumStones(size, board) > 0
  /\ ENABLED (\E c \in {"b", "w"} : \E text \in PlayTextTable[size] :
                RepeatsWitness(c, text) /\ PlayOk(c, text))

====
